---- MODULE Spec2Model ----
(***************************************************************************)
(* Connection supervisor of bin/light-node (src/bin/light-node/src/main.rs) *)
(* as a state machine: the main task (initial session establishment, then  *)
(* the health poll loop), the spawned response pump task with its inline   *)
(* reconnect loop, the RwLock around the client, and the client's session  *)
(* interface (add_chain / remove_chain / json_rpc_request).                 *)
(***************************************************************************)
EXTENDS Integers, Sequences, FiniteSets, TLC

VARIABLES
    mainPc,              \* position of the main task (main.rs:148-180, 263-288)
    pumpPc,              \* position of the spawned task (main.rs:186-261)
    guard,               \* tasks holding a write guard of the RwLock
    poisoned,            \* the RwLock is poisoned
    chain_id,            \* `chain_id` bound at main.rs:149 (0: not bound yet)
    chains,              \* session ids currently open in the client
    json_rpc_responses,  \* the response stream held by main, then by the pump
    response,            \* `response` of the pump (main.rs:190)
    id,                  \* `id` of the poll loop (main.rs:264)
    req_id,              \* the "id" field of `req` (main.rs:274)
    reqLog,              \* history: every json_rpc_request call, in order
    sink,                \* history: every line printed at main.rs:191, in order
    delivered,           \* history: every message a session put on its stream
    calls,               \* history: counters of add_chain / remove_chain calls
    rc,                  \* history: counters of the current reconnect
    evalIn,              \* input of a stand-alone check_if_need_reconnect call
    evalOut              \* its result

vars == <<mainPc, pumpPc, guard, poisoned, chain_id, chains, json_rpc_responses,
          response, id, req_id, reqLog, sink, delivered, calls, rc, evalIn, evalOut>>

sysVars == <<mainPc, pumpPc, guard, poisoned, chain_id, chains, json_rpc_responses,
             response, id, req_id, reqLog, sink, delivered, calls, rc>>

evalVars == <<evalIn, evalOut>>

(***************************************************************************)
(* Bounds of the model.                                                    *)
(***************************************************************************)
MaxOpens == 3        \* add_chain calls in one run
MaxPolls == 2        \* health polls in one run
MaxMsgs == 3         \* messages the sessions deliver in one run

(***************************************************************************)
(* Response texts.  A text is either not a JSON object at all, or a JSON   *)
(* object described by what serde looks at: the members jsonrpc, id and    *)
(* result, and the members isSyncing, peers, shouldHavePeers of result.    *)
(* A member is a tagged value; "num" carries an integer, "big" is a number *)
(* above u32::MAX, "absent" a missing member.                              *)
(***************************************************************************)
Absent == [t |-> "absent", v |-> 0]
Str == [t |-> "str", v |-> 0]
Obj == [t |-> "obj", v |-> 0]
Big == [t |-> "big", v |-> 0]
Num(n) == [t |-> "num", v |-> n]
Bool(b) == [t |-> "bool", v |-> IF b THEN 1 ELSE 0]

Garbage ==
    [json |-> FALSE, jsonrpc |-> Absent, id |-> Absent, result |-> Absent,
     isSyncing |-> Absent, peers |-> Absent, shouldHavePeers |-> Absent]

AllTexts ==
    {Garbage} \cup
    { x \in [json : {TRUE},
             jsonrpc : {Str, Absent, Num(2)},
             id : {Num(1), Num(-1), Str, Absent},
             result : {Obj, Str, Absent},
             isSyncing : {Bool(TRUE), Bool(FALSE), Str, Absent},
             peers : {Num(0), Num(1), Num(-1), Big, Absent},
             shouldHavePeers : {Bool(TRUE), Bool(FALSE), Absent}] :
        x.result # Obj =>
            /\ x.isSyncing = Absent
            /\ x.peers = Absent
            /\ x.shouldHavePeers = Absent }

HealthText(syncing, peers, shp) ==
    [json |-> TRUE, jsonrpc |-> Str, id |-> Num(1), result |-> Obj,
     isSyncing |-> Bool(syncing), peers |-> Num(peers), shouldHavePeers |-> Bool(shp)]

\* {"jsonrpc":"2.0","method":"chain_newHead","params":{...}}
NotificationText ==
    [json |-> TRUE, jsonrpc |-> Str, id |-> Absent, result |-> Absent,
     isSyncing |-> Absent, peers |-> Absent, shouldHavePeers |-> Absent]

\* The texts the sessions of the model put on their streams.
StreamTexts == {HealthText(FALSE, 0, FALSE), NotificationText}

IsU32(x) == x.t = "num" /\ x.v >= 0

\* serde_json::from_str::<HealthCheckResp>: every member is required and typed.
from_str(resp) ==
    IF /\ resp.json
       /\ resp.jsonrpc.t = "str"
       /\ IsU32(resp.id)
       /\ resp.result.t = "obj"
       /\ resp.isSyncing.t = "bool"
       /\ IsU32(resp.peers)
       /\ resp.shouldHavePeers.t = "bool"
    THEN [ok |-> TRUE,
          is_syncing |-> resp.isSyncing.v = 1,
          peers |-> resp.peers.v,
          should_have_peers |-> resp.shouldHavePeers.v = 1]
    ELSE [ok |-> FALSE, is_syncing |-> FALSE, peers |-> 0, should_have_peers |-> FALSE]

\* Variant of check_if_need_reconnect that leaves should_have_peers out of the test.
check_if_need_reconnect_ignoring_should_have_peers(resp) ==
    LET check_resp == from_str(resp)
    IN  IF check_resp.ok
        THEN ~check_resp.is_syncing /\ check_resp.peers = 0
        ELSE FALSE

check_if_need_reconnect(resp) ==
    LET check_resp == from_str(resp)
    IN  IF check_resp.ok
        THEN /\ ~check_resp.is_syncing
             /\ ~check_resp.should_have_peers
             /\ check_resp.peers = 0
        ELSE FALSE


(***************************************************************************)
(* Streams, messages and the history records.                              *)
(***************************************************************************)
\* A response stream: `ep` numbers the successful add_chain call that made it
\* (0: no stream yet), `q` holds the messages not read yet, `n` counts the
\* messages put on it, `ended` says the sending side is gone.
NoStream == [ep |-> 0, q |-> <<>>, n |-> 0, ended |-> FALSE]
NewStream(ep) == [ep |-> ep, q |-> <<>>, n |-> 0, ended |-> FALSE]
NoMsg == [ep |-> 0, n |-> 0, text |-> Garbage]

NoCalls == [opens |-> 0, ok |-> 0, closes |-> 0, sid |-> 0]
NoReconnect == [active |-> FALSE, opens |-> 0, fails |-> 0, sleeps |-> 0,
                closes |-> 0, sid |-> 0]

\* The process ends when the main task panics (main.rs:68, 263).
Running == mainPc \notin {"aborted", "poll_panicked"}

\* The old session is closed and no new one is installed yet.
InGap == rc.active /\ rc.closes > 0 /\ rc.sid = 0

(***************************************************************************)
(* The RwLock (main.rs:109): `write()` blocks while a guard is out, and    *)
(* returns Err when the lock is poisoned; a panic that unwinds through a   *)
(* write guard poisons the lock.                                           *)
(***************************************************************************)
\* Variant of WriteReady that hands out a guard while another one is out.
WriteReadyAlways == TRUE

WriteReady == guard = {}

PanicUnwind(task) ==
    /\ poisoned' = (poisoned \/ task \in guard)
    /\ guard' = guard \ {task}

(***************************************************************************)
(* The client's session interface.                                         *)
(***************************************************************************)
\* The session ids add_chain may return: the lowest id not in use (an
\* allocator that reuses freed slots) or an id never handed out before.
LowestFree == CHOOSE s \in 1 .. (Cardinality(chains) + 1) :
                 s \notin chains /\ \A r \in 1 .. (s - 1) : r \in chains

FreshIds == {LowestFree, calls.ok + 1} \ chains

\* add_chain: the outcomes of one call, an error or a new session.
AddChainOutcomes ==
    {[ok |-> FALSE, sid |-> 0]} \cup {[ok |-> TRUE, sid |-> s] : s \in FreshIds}

\* remove_chain: the session is gone afterwards, whether it was open or not.
remove_chain(sid) == chains \ {sid}

\* json_rpc_request: queues the request or returns Err; recorded in reqLog.
Logged(who, method, rid, sid, ok) ==
    Append(reqLog, [who |-> who, method |-> method, id |-> rid, sid |-> sid, ok |-> ok,
                    ep |-> calls.ok, cur |-> calls.sid, open |-> sid \in chains,
                    gap |-> InGap])

(***************************************************************************)
(* The main task: initial session establishment (main.rs:148-180).         *)
(***************************************************************************)
InitWrite ==
    /\ mainPc \in {"init_write_add", "init_write_sub1", "init_write_sub2"}
    /\ WriteReady
    /\ guard' = guard \cup {"main"}
    /\ mainPc' = CASE mainPc = "init_write_add" -> "init_add"
                   [] mainPc = "init_write_sub1" -> "init_sub1"
                   [] OTHER -> "init_sub2"
    /\ UNCHANGED <<pumpPc, poisoned, chain_id, chains, json_rpc_responses, response,
                   id, req_id, reqLog, sink, delivered, calls, rc, evalVars>>

InitAddChain ==
    /\ mainPc = "init_add"
    /\ \E out \in AddChainOutcomes :
        /\ calls' = [calls EXCEPT !.opens = @ + 1,
                                  !.ok = IF out.ok THEN @ + 1 ELSE @,
                                  !.sid = IF out.ok THEN out.sid ELSE @]
        /\ IF out.ok
           THEN /\ chain_id' = out.sid
                /\ chains' = chains \cup {out.sid}
                /\ json_rpc_responses' = NewStream(calls.ok + 1)
                /\ mainPc' = "init_write_sub1"
                /\ guard' = guard \ {"main"}
                /\ UNCHANGED poisoned
           ELSE /\ mainPc' = "aborted"
                /\ PanicUnwind("main")
                /\ UNCHANGED <<chain_id, chains, json_rpc_responses>>
    /\ UNCHANGED <<pumpPc, response, id, req_id, reqLog, sink, delivered, rc, evalVars>>

InitSubscribe(pc, rid, method, nextPc) ==
    /\ mainPc = pc
    /\ \E ok \in BOOLEAN :
        /\ reqLog' = Logged("main", method, rid, chain_id, ok)
        /\ IF ok
           THEN /\ mainPc' = nextPc
                /\ guard' = guard \ {"main"}
                /\ UNCHANGED poisoned
           ELSE /\ mainPc' = "aborted"
                /\ PanicUnwind("main")
    /\ UNCHANGED <<pumpPc, chain_id, chains, json_rpc_responses, response, id, req_id,
                   sink, delivered, calls, rc, evalVars>>

\* Variant of InitSub1 that ignores the result of json_rpc_request.
InitSub1IgnoresError ==
    /\ mainPc = "init_sub1"
    /\ \E ok \in BOOLEAN :
        reqLog' = Logged("main", "chain_subscribeNewHeads", 1, chain_id, ok)
    /\ mainPc' = "init_write_sub2"
    /\ guard' = guard \ {"main"}
    /\ UNCHANGED <<pumpPc, poisoned, chain_id, chains, json_rpc_responses, response, id,
                   req_id, sink, delivered, calls, rc, evalVars>>

InitSub1 == InitSubscribe("init_sub1", 1, "chain_subscribeNewHeads", "init_write_sub2")

InitSub2 == InitSubscribe("init_sub2", 2, "grandpa_subscribeJustifications", "spawn")

\* main.rs:182-188 and 263-271: the pump task is spawned with the stream, the
\* main task enters the poll loop with id = 3.
Spawn ==
    /\ mainPc = "spawn"
    /\ mainPc' = "poll_build"
    /\ pumpPc' = "next"
    /\ id' = 3
    /\ UNCHANGED <<guard, poisoned, chain_id, chains, json_rpc_responses, response,
                   req_id, reqLog, sink, delivered, calls, rc, evalVars>>


(***************************************************************************)
(* The main task: the health poll loop (main.rs:263-288).                  *)
(***************************************************************************)
\* Variant of PollBuild that does not advance the counter.
PollBuildKeepsId ==
    /\ mainPc = "poll_build"
    /\ id < 3 + MaxPolls
    /\ req_id' = id
    /\ mainPc' = "poll_write"
    /\ UNCHANGED <<pumpPc, guard, poisoned, chain_id, chains, json_rpc_responses,
                   response, id, reqLog, sink, delivered, calls, rc, evalVars>>

\* main.rs:274-278: the request takes the counter's value, the counter moves on.
PollBuild ==
    /\ mainPc = "poll_build"
    /\ id < 3 + MaxPolls
    /\ req_id' = id
    /\ id' = id + 1
    /\ mainPc' = "poll_write"
    /\ UNCHANGED <<pumpPc, guard, poisoned, chain_id, chains, json_rpc_responses,
                   response, reqLog, sink, delivered, calls, rc, evalVars>>

\* main.rs:280-282: client.write().expect("write lock").
PollWrite ==
    /\ mainPc = "poll_write"
    /\ WriteReady
    /\ IF poisoned
       THEN /\ mainPc' = "poll_panicked"
            /\ UNCHANGED guard
       ELSE /\ mainPc' = "poll_request"
            /\ guard' = guard \cup {"main"}
    /\ UNCHANGED <<pumpPc, poisoned, chain_id, chains, json_rpc_responses, response,
                   id, req_id, reqLog, sink, delivered, calls, rc, evalVars>>

\* Variant of PollRequest whose guard outlives the statement.
PollRequestKeepsGuard ==
    /\ mainPc = "poll_request"
    /\ \E ok \in BOOLEAN :
        reqLog' = Logged("main", "system_health", req_id, chain_id, ok)
    /\ mainPc' = "poll_build"
    /\ UNCHANGED <<pumpPc, guard, poisoned, chain_id, chains, json_rpc_responses, response,
                   id, req_id, sink, delivered, calls, rc, evalVars>>

\* Variant of PollRequest that unwraps the result of json_rpc_request.
PollRequestUnwraps ==
    /\ mainPc = "poll_request"
    /\ \E ok \in BOOLEAN :
        /\ reqLog' = Logged("main", "system_health", req_id, chain_id, ok)
        /\ IF ok
           THEN /\ mainPc' = "poll_build"
                /\ guard' = guard \ {"main"}
                /\ UNCHANGED poisoned
           ELSE /\ mainPc' = "poll_panicked"
                /\ PanicUnwind("main")
    /\ UNCHANGED <<pumpPc, chain_id, chains, json_rpc_responses, response,
                   id, req_id, sink, delivered, calls, rc, evalVars>>

\* main.rs:283-286: the request is submitted, the guard of the statement is
\* dropped, the outcome printed; the task sleeps until the next tick.
PollRequest ==
    /\ mainPc = "poll_request"
    /\ \E ok \in BOOLEAN :
        reqLog' = Logged("main", "system_health", req_id, chain_id, ok)
    /\ guard' = guard \ {"main"}
    /\ mainPc' = "poll_build"
    /\ UNCHANGED <<pumpPc, poisoned, chain_id, chains, json_rpc_responses, response,
                   id, req_id, sink, delivered, calls, rc, evalVars>>

(***************************************************************************)
(* The response pump (main.rs:186-194).                                    *)
(***************************************************************************)
\* Variant of PumpNext that leaves the message it returns in the stream.
PumpNextKeepsMessage ==
    /\ Running
    /\ pumpPc = "next"
    /\ json_rpc_responses.q # <<>>
    /\ response' = Head(json_rpc_responses.q)
    /\ pumpPc' = "println"
    /\ UNCHANGED <<mainPc, guard, poisoned, chain_id, chains, json_rpc_responses, id,
                   req_id, reqLog, sink, delivered, calls, rc, evalVars>>

\* main.rs:190: next().await yields the oldest unread message.
PumpNext ==
    /\ Running
    /\ pumpPc = "next"
    /\ json_rpc_responses.q # <<>>
    /\ response' = Head(json_rpc_responses.q)
    /\ json_rpc_responses' = [json_rpc_responses EXCEPT !.q = Tail(@)]
    /\ pumpPc' = "println"
    /\ UNCHANGED <<mainPc, guard, poisoned, chain_id, chains, id, req_id, reqLog, sink,
                   delivered, calls, rc, evalVars>>

\* Variant of PumpNextNone that treats the end of the stream as a reason to
\* reconnect.
PumpNextNoneReconnects ==
    /\ Running
    /\ pumpPc = "next"
    /\ json_rpc_responses.q = <<>>
    /\ json_rpc_responses.ended
    /\ pumpPc' = "rc_write"
    /\ rc' = [NoReconnect EXCEPT !.active = TRUE]
    /\ UNCHANGED <<mainPc, guard, poisoned, chain_id, chains, json_rpc_responses,
                   response, id, req_id, reqLog, sink, delivered, calls, evalVars>>

\* main.rs:190: next().await yields None on an ended stream, unwrap() panics.
PumpNextNone ==
    /\ Running
    /\ pumpPc = "next"
    /\ json_rpc_responses.q = <<>>
    /\ json_rpc_responses.ended
    /\ pumpPc' = "panicked"
    /\ PanicUnwind("pump")
    /\ UNCHANGED <<mainPc, chain_id, chains, json_rpc_responses, response, id, req_id,
                   reqLog, sink, delivered, calls, rc, evalVars>>

\* main.rs:191.
PumpPrintln ==
    /\ Running
    /\ pumpPc = "println"
    /\ sink' = Append(sink, response)
    /\ pumpPc' = "check"
    /\ UNCHANGED <<mainPc, guard, poisoned, chain_id, chains, json_rpc_responses,
                   response, id, req_id, reqLog, delivered, calls, rc, evalVars>>

\* Variant of PumpCheck that starts a reconnect whatever the verdict.
PumpCheckAlwaysReconnects ==
    /\ Running
    /\ pumpPc = "check"
    /\ pumpPc' = "rc_write"
    /\ rc' = [NoReconnect EXCEPT !.active = TRUE]
    /\ UNCHANGED <<mainPc, guard, poisoned, chain_id, chains, json_rpc_responses,
                   response, id, req_id, reqLog, sink, delivered, calls, evalVars>>

\* main.rs:193-196.
PumpCheck ==
    /\ Running
    /\ pumpPc = "check"
    /\ IF check_if_need_reconnect(response.text)
       THEN /\ pumpPc' = "rc_write"
            /\ rc' = [NoReconnect EXCEPT !.active = TRUE]
       ELSE /\ pumpPc' = "next"
            /\ UNCHANGED rc
    /\ UNCHANGED <<mainPc, guard, poisoned, chain_id, chains, json_rpc_responses,
                   response, id, req_id, reqLog, sink, delivered, calls, evalVars>>

(***************************************************************************)
(* The reconnect loop (main.rs:196-258).                                   *)
(***************************************************************************)
\* Variant of RcWrite that enters the block without taking the write guard.
RcWriteNoGuard ==
    /\ Running
    /\ pumpPc = "rc_write"
    /\ pumpPc' = "rc_remove"
    /\ UNCHANGED <<mainPc, guard, poisoned, chain_id, chains, json_rpc_responses,
                   response, id, req_id, reqLog, sink, delivered, calls, rc, evalVars>>

\* main.rs:198: client_copy.write().expect("write lock").
RcWrite ==
    /\ Running
    /\ pumpPc = "rc_write"
    /\ WriteReady
    /\ IF poisoned
       THEN /\ pumpPc' = "panicked"
            /\ UNCHANGED guard
       ELSE /\ pumpPc' = "rc_remove"
            /\ guard' = guard \cup {"pump"}
    /\ UNCHANGED <<mainPc, poisoned, chain_id, chains, json_rpc_responses, response,
                   id, req_id, reqLog, sink, delivered, calls, rc, evalVars>>

\* main.rs:225-226: the result of remove_chain is discarded.
RcRemoveChain ==
    /\ Running
    /\ pumpPc = "rc_remove"
    /\ calls.closes < MaxOpens
    /\ chains' = remove_chain(chain_id)
    /\ calls' = [calls EXCEPT !.closes = @ + 1]
    /\ rc' = [rc EXCEPT !.closes = @ + 1]
    /\ pumpPc' = "rc_add"
    /\ UNCHANGED <<mainPc, guard, poisoned, chain_id, json_rpc_responses, response,
                   id, req_id, reqLog, sink, delivered, evalVars>>

\* Variant of RcAddChain that does not replace current_json_rpc_responses by
\* the stream of the new session.
RcAddChainKeepsStream ==
    /\ Running
    /\ pumpPc = "rc_add"
    /\ calls.opens < MaxOpens
    /\ \E out \in AddChainOutcomes :
        /\ calls' = [calls EXCEPT !.opens = @ + 1,
                                  !.ok = IF out.ok THEN @ + 1 ELSE @,
                                  !.sid = IF out.ok THEN out.sid ELSE @]
        /\ IF out.ok
           THEN /\ chains' = chains \cup {out.sid}
                /\ rc' = [rc EXCEPT !.opens = @ + 1, !.sid = out.sid]
                /\ pumpPc' = "rc_sub1"
           ELSE /\ rc' = [rc EXCEPT !.opens = @ + 1, !.fails = @ + 1]
                /\ pumpPc' = "rc_end_block"
                /\ UNCHANGED chains
    /\ UNCHANGED <<mainPc, guard, poisoned, chain_id, json_rpc_responses, response, id,
                   req_id, reqLog, sink, delivered, evalVars>>

\* Variant of RcAddChain whose guard ends with the add_chain statement.
RcAddChainDropsGuard ==
    /\ Running
    /\ pumpPc = "rc_add"
    /\ calls.opens < MaxOpens
    /\ \E out \in AddChainOutcomes :
        /\ calls' = [calls EXCEPT !.opens = @ + 1,
                                  !.ok = IF out.ok THEN @ + 1 ELSE @,
                                  !.sid = IF out.ok THEN out.sid ELSE @]
        /\ IF out.ok
           THEN /\ chains' = chains \cup {out.sid}
                /\ json_rpc_responses' = NewStream(calls.ok + 1)
                /\ rc' = [rc EXCEPT !.opens = @ + 1, !.sid = out.sid]
                /\ pumpPc' = "rc_sub1"
                /\ guard' = guard \ {"pump"}
           ELSE /\ rc' = [rc EXCEPT !.opens = @ + 1, !.fails = @ + 1]
                /\ pumpPc' = "rc_end_block"
                /\ UNCHANGED <<chains, json_rpc_responses, guard>>
    /\ UNCHANGED <<mainPc, poisoned, chain_id, response, id, req_id, reqLog,
                   sink, delivered, evalVars>>

\* main.rs:227-232: on Ok only the stream of AddChainSuccess is bound (`..`
\* drops its chain_id) and replaces current_json_rpc_responses; on Err the
\* block is left.
RcAddChain ==
    /\ Running
    /\ pumpPc = "rc_add"
    /\ calls.opens < MaxOpens
    /\ \E out \in AddChainOutcomes :
        /\ calls' = [calls EXCEPT !.opens = @ + 1,
                                  !.ok = IF out.ok THEN @ + 1 ELSE @,
                                  !.sid = IF out.ok THEN out.sid ELSE @]
        /\ IF out.ok
           THEN /\ chains' = chains \cup {out.sid}
                /\ json_rpc_responses' = NewStream(calls.ok + 1)
                /\ rc' = [rc EXCEPT !.opens = @ + 1, !.sid = out.sid]
                /\ pumpPc' = "rc_sub1"
           ELSE /\ rc' = [rc EXCEPT !.opens = @ + 1, !.fails = @ + 1]
                /\ pumpPc' = "rc_end_block"
                /\ UNCHANGED <<chains, json_rpc_responses>>
    /\ UNCHANGED <<mainPc, guard, poisoned, chain_id, response, id, req_id, reqLog,
                   sink, delivered, evalVars>>

\* main.rs:240-252: json_rpc_request(...).unwrap() under the guard of main.rs:198.
RcSubscribe(pc, rid, method, nextPc) ==
    /\ Running
    /\ pumpPc = pc
    /\ \E ok \in BOOLEAN :
        /\ reqLog' = Logged("pump", method, rid, chain_id, ok)
        /\ IF ok
           THEN /\ pumpPc' = nextPc
                /\ UNCHANGED <<guard, poisoned>>
           ELSE /\ pumpPc' = "panicked"
                /\ PanicUnwind("pump")
    /\ UNCHANGED <<mainPc, chain_id, chains, json_rpc_responses, response, id, req_id,
                   sink, delivered, calls, rc, evalVars>>

\* Variant of RcSub1 that treats a failed request like a failed add_chain:
\* it leaves the block and retries.
RcSub1RetriesOnError ==
    /\ Running
    /\ pumpPc = "rc_sub1"
    /\ \E ok \in BOOLEAN :
        /\ reqLog' = Logged("pump", "chain_subscribeNewHeads", 1, chain_id, ok)
        /\ pumpPc' = IF ok THEN "rc_sub2" ELSE "rc_end_block"
    /\ UNCHANGED <<mainPc, guard, poisoned, chain_id, chains, json_rpc_responses,
                   response, id, req_id, sink, delivered, calls, rc, evalVars>>

RcSub1 == RcSubscribe("rc_sub1", 1, "chain_subscribeNewHeads", "rc_sub2")

\* Variant of RcSub2 that repeats the first bootstrap request.
RcSub2RepeatsNewHeads == RcSubscribe("rc_sub2", 1, "chain_subscribeNewHeads", "rc_break")

RcSub2 == RcSubscribe("rc_sub2", 2, "grandpa_subscribeJustifications", "rc_break")

\* Variant of RcBreak that restarts the poll numbering after a reconnect.
RcBreakResetsId ==
    /\ Running
    /\ pumpPc = "rc_break"
    /\ guard' = guard \ {"pump"}
    /\ rc' = [rc EXCEPT !.active = FALSE]
    /\ id' = 3
    /\ pumpPc' = "next"
    /\ UNCHANGED <<mainPc, poisoned, chain_id, chains, json_rpc_responses, response,
                   req_id, reqLog, sink, delivered, calls, evalVars>>

\* main.rs:254-256: break leaves the block, the guard is dropped, the pump
\* reads again (main.rs:189-190).
RcBreak ==
    /\ Running
    /\ pumpPc = "rc_break"
    /\ guard' = guard \ {"pump"}
    /\ rc' = [rc EXCEPT !.active = FALSE]
    /\ pumpPc' = "next"
    /\ UNCHANGED <<mainPc, poisoned, chain_id, chains, json_rpc_responses, response,
                   id, req_id, reqLog, sink, delivered, calls, evalVars>>

\* Variant of RcEndBlock in which the guard outlives the block.
RcEndBlockKeepsGuard ==
    /\ Running
    /\ pumpPc = "rc_end_block"
    /\ pumpPc' = "rc_sleep"
    /\ UNCHANGED <<mainPc, guard, poisoned, chain_id, chains, json_rpc_responses,
                   response, id, req_id, reqLog, sink, delivered, calls, rc, evalVars>>

\* main.rs:255-256: after a failed add_chain the block ends, the guard is dropped.
RcEndBlock ==
    /\ Running
    /\ pumpPc = "rc_end_block"
    /\ guard' = guard \ {"pump"}
    /\ pumpPc' = "rc_sleep"
    /\ UNCHANGED <<mainPc, poisoned, chain_id, chains, json_rpc_responses, response,
                   id, req_id, reqLog, sink, delivered, calls, rc, evalVars>>

\* Variant of RcSleep that gives up after the delay instead of retrying.
RcSleepGivesUp ==
    /\ Running
    /\ pumpPc = "rc_sleep"
    /\ rc' = [rc EXCEPT !.sleeps = @ + 1]
    /\ pumpPc' = "next"
    /\ UNCHANGED <<mainPc, guard, poisoned, chain_id, chains, json_rpc_responses,
                   response, id, req_id, reqLog, sink, delivered, calls, evalVars>>

\* main.rs:257: the fixed delay, then the next turn of the loop.
RcSleep ==
    /\ Running
    /\ pumpPc = "rc_sleep"
    /\ rc.sleeps < MaxOpens
    /\ rc' = [rc EXCEPT !.sleeps = @ + 1]
    /\ pumpPc' = "rc_write"
    /\ UNCHANGED <<mainPc, guard, poisoned, chain_id, chains, json_rpc_responses,
                   response, id, req_id, reqLog, sink, delivered, calls, evalVars>>

(***************************************************************************)
(* The sessions: a session puts response texts on its stream and may end   *)
(* the stream.  The stream is owned by the spawned task (main.rs:187) and  *)
(* is gone once that task has panicked.                                    *)
(***************************************************************************)
Deliver ==
    /\ Running
    /\ pumpPc # "panicked"
    /\ json_rpc_responses.ep > 0
    /\ ~json_rpc_responses.ended
    /\ Cardinality(delivered) < MaxMsgs
    /\ \E text \in StreamTexts :
        LET msg == [ep |-> json_rpc_responses.ep, n |-> json_rpc_responses.n + 1,
                    text |-> text]
        IN  /\ json_rpc_responses' =
                   [json_rpc_responses EXCEPT !.q = Append(@, msg), !.n = @ + 1]
            /\ delivered' = delivered \cup {msg}
    /\ UNCHANGED <<mainPc, pumpPc, guard, poisoned, chain_id, chains, response, id,
                   req_id, reqLog, sink, calls, rc, evalVars>>

StreamEnd ==
    /\ Running
    /\ pumpPc # "panicked"
    /\ json_rpc_responses.ep > 0
    /\ ~json_rpc_responses.ended
    /\ json_rpc_responses' = [json_rpc_responses EXCEPT !.ended = TRUE]
    /\ UNCHANGED <<mainPc, pumpPc, guard, poisoned, chain_id, chains, response, id,
                   req_id, reqLog, sink, delivered, calls, rc, evalVars>>

(***************************************************************************)
(* The specifications.                                                     *)
(***************************************************************************)
SysInit ==
    /\ mainPc = "init_write_add"
    /\ pumpPc = "not_spawned"
    /\ guard = {}
    /\ poisoned = FALSE
    /\ chain_id = 0
    /\ chains = {}
    /\ json_rpc_responses = NoStream
    /\ response = NoMsg
    /\ id = 0
    /\ req_id = 0
    /\ reqLog = <<>>
    /\ sink = <<>>
    /\ delivered = {}
    /\ calls = NoCalls
    /\ rc = NoReconnect

Init ==
    /\ SysInit
    /\ evalIn = Garbage
    /\ evalOut = "none"

MainStep ==
    \/ InitWrite \/ InitAddChain \/ InitSub1 \/ InitSub2 \/ Spawn
    \/ PollBuild \/ PollWrite \/ PollRequest

PumpStep ==
    \/ PumpNext \/ PumpNextNone \/ PumpPrintln \/ PumpCheck
    \/ RcWrite \/ RcRemoveChain \/ RcAddChain \/ RcSub1 \/ RcSub2
    \/ RcBreak \/ RcEndBlock \/ RcSleep

Next ==
    \/ InitWrite \/ InitAddChain \/ InitSub1 \/ InitSub2 \/ Spawn
    \/ PollBuild \/ PollWrite \/ PollRequest
    \/ PumpNext \/ PumpNextNone \/ PumpPrintln \/ PumpCheck
    \/ RcWrite \/ RcRemoveChain \/ RcAddChain \/ RcSub1 \/ RcSub2
    \/ RcBreak \/ RcEndBlock \/ RcSleep
    \/ Deliver \/ StreamEnd

Spec == Init /\ [][Next]_vars

\* The executor runs the spawned task whenever it can take a step.
FairSpec == Spec /\ WF_vars(PumpStep) /\ WF_vars(MainStep)

(***************************************************************************)
(* The retry loop without end (main.rs:196-258): once the counters of the  *)
(* model are at their bounds, further turns of the loop in which add_chain *)
(* fails are taken without counting them.                                  *)
(***************************************************************************)
\* main.rs:225-226, a turn past the bound of calls.closes.
RcRemoveChainBeyond ==
    /\ Running
    /\ pumpPc = "rc_remove"
    /\ calls.closes = MaxOpens
    /\ chains' = remove_chain(chain_id)
    /\ pumpPc' = "rc_add"
    /\ UNCHANGED <<mainPc, guard, poisoned, chain_id, json_rpc_responses, response,
                   id, req_id, reqLog, sink, delivered, calls, rc, evalVars>>

\* main.rs:227-229 and 255: add_chain returns Err, past the bound of calls.opens.
RcAddChainBeyond ==
    /\ Running
    /\ pumpPc = "rc_add"
    /\ calls.opens = MaxOpens
    /\ pumpPc' = "rc_end_block"
    /\ UNCHANGED <<mainPc, guard, poisoned, chain_id, chains, json_rpc_responses,
                   response, id, req_id, reqLog, sink, delivered, calls, rc, evalVars>>

\* main.rs:257, a delay past the bound of rc.sleeps.
RcSleepBeyond ==
    /\ Running
    /\ pumpPc = "rc_sleep"
    /\ rc.sleeps = MaxOpens
    /\ pumpPc' = "rc_write"
    /\ UNCHANGED <<mainPc, guard, poisoned, chain_id, chains, json_rpc_responses,
                   response, id, req_id, reqLog, sink, delivered, calls, rc, evalVars>>

PumpStepEndless ==
    \/ PumpNext \/ PumpNextNone \/ PumpPrintln \/ PumpCheck
    \/ RcWrite \/ RcRemoveChain \/ RcAddChain \/ RcSub1 \/ RcSub2
    \/ RcBreak \/ RcEndBlock \/ RcSleep
    \/ RcRemoveChainBeyond \/ RcAddChainBeyond \/ RcSleepBeyond

NextEndless ==
    \/ InitWrite \/ InitAddChain \/ InitSub1 \/ InitSub2 \/ Spawn
    \/ PollBuild \/ PollWrite \/ PollRequest
    \/ PumpNext \/ PumpNextNone \/ PumpPrintln \/ PumpCheck
    \/ RcWrite \/ RcRemoveChain \/ RcAddChain \/ RcSub1 \/ RcSub2
    \/ RcBreak \/ RcEndBlock \/ RcSleep
    \/ RcRemoveChainBeyond \/ RcAddChainBeyond \/ RcSleepBeyond
    \/ Deliver \/ StreamEnd

\* Both tasks are run whenever they can take a step (the main task by
\* block_on, the spawned task by the executor's threads), and a write() that
\* waits is granted the guard when the guard is free again and again: the
\* retry loop leaves it free for the whole of each delay (main.rs:257).
EndlessSpec ==
    /\ Init
    /\ [][NextEndless]_vars
    /\ WF_vars(PumpStepEndless)
    /\ WF_vars(MainStep)
    /\ SF_vars(PollWrite)

\* One call of check_if_need_reconnect on any text.
Evaluate ==
    /\ evalOut = "none"
    /\ evalOut' = IF check_if_need_reconnect(evalIn) THEN "reconnect" ELSE "no_reconnect"
    /\ UNCHANGED <<evalIn, sysVars>>

EvalInit ==
    /\ SysInit
    /\ evalIn \in AllTexts
    /\ evalOut = "none"

EvalSpec == EvalInit /\ [][Evaluate]_vars


(***************************************************************************)
(* Helpers of the properties.                                              *)
(***************************************************************************)
IsPoll(e) == e.method = "system_health"
IsBoot(e) == e.method \in {"chain_subscribeNewHeads", "grandpa_subscribeJustifications"}

PollEntries == SelectSeq(reqLog, IsPoll)
BootEntries == SelectSeq(reqLog, IsBoot)

\* The bootstrap requests submitted since the ep-th successful add_chain.
BootOf(ep) == LET In(e) == IsBoot(e) /\ e.ep = ep IN SelectSeq(reqLog, In)

BootMethods == <<"chain_subscribeNewHeads", "grandpa_subscribeJustifications">>

Occurrences(seq, x) == Cardinality({i \in 1 .. Len(seq) : seq[i] = x})

InQueue(m) == \E i \in 1 .. Len(json_rpc_responses.q) : json_rpc_responses.q[i] = m

\* The pump has taken m from the stream and not printed it yet.
Held(m) == pumpPc = "println" /\ response = m

\* The pump panicked on the end of its stream (not inside a reconnect).
EosPanic == pumpPc = "panicked" /\ ~rc.active

PumpCalls == LET ByPump(e) == e.who = "pump" IN Len(SelectSeq(reqLog, ByPump))

(***************************************************************************)
(* C1                                                                      *)
(***************************************************************************)
\* C1 (as stated): the i-th request submitted in a run carries id i: ids are
\* 1..N in submission order, with no repeats, also across reconnects.
C1_IdsOneToN == \A i \in 1 .. Len(reqLog) : reqLog[i].id = i

\* C1 (amended): the health polls carry ids 3, 4, 5, ... in submission order,
\* with no repeats and no gaps, and no reconnect resets that numbering; the
\* bootstrap subscriptions carry the fixed ids 1 and 2 on every (re)connect,
\* so a bootstrap id never collides with a poll id.
C1_PollIdsIncreaseBootIdsFixed ==
    /\ \A j \in 1 .. Len(PollEntries) : PollEntries[j].id = j + 2
    /\ \A i \in 1 .. Len(reqLog) :
        /\ reqLog[i].method = "chain_subscribeNewHeads" => reqLog[i].id = 1
        /\ reqLog[i].method = "grandpa_subscribeJustifications" => reqLog[i].id = 2
    /\ id > 0 =>
        id = Len(PollEntries) + 3
                + (IF mainPc \in {"poll_write", "poll_request", "poll_panicked"} THEN 1 ELSE 0)

\* C1 witness: a poll, then the bootstrap requests of a reconnect, then a poll.
C1_PollsAroundReconnect ==
    \E i, j, k \in 1 .. Len(reqLog) :
        /\ i < j /\ j < k
        /\ IsPoll(reqLog[i]) /\ IsPoll(reqLog[k])
        /\ reqLog[j].who = "pump" /\ reqLog[j].id = 2

(***************************************************************************)
(* C2                                                                      *)
(***************************************************************************)
\* C2 (as stated): every message a session delivered on its stream is
\* forwarded to the sink exactly once (or is still on its way to the sink:
\* waiting in the pump's stream or taken by the pump and about to be printed).
C2_EveryDeliveredForwardedOnce ==
    \A m \in delivered :
        \/ Occurrences(sink, m) = 1
        \/ Occurrences(sink, m) = 0 /\ (InQueue(m) \/ Held(m))

\* C2 (amended): every message the pump has read from a stream is forwarded
\* exactly once, in sequence with no gap, and no message is forwarded twice;
\* the messages still unread in the old stream when a reconnect replaces it are
\* discarded with it and never forwarded.
C2_ReadForwardedOnceUnreadDropped ==
    /\ \A i \in 1 .. Len(sink) : sink[i] \in delivered /\ Occurrences(sink, sink[i]) = 1
    /\ \A m \in delivered :
        \/ Occurrences(sink, m) = 1
        \/ Occurrences(sink, m) = 0 /\ (InQueue(m) \/ Held(m))
        \/ /\ Occurrences(sink, m) = 0
           /\ m.ep < json_rpc_responses.ep
           /\ \E i \in 1 .. Len(sink) :
                /\ sink[i].ep = m.ep
                /\ sink[i].n < m.n
                /\ check_if_need_reconnect(sink[i].text)
    /\ \A i \in 1 .. Len(sink) :
        \/ sink[i].n = 1
        \/ i > 1 /\ sink[i - 1].ep = sink[i].ep /\ sink[i - 1].n + 1 = sink[i].n

\* C2 witness: a reconnect replaced the stream while a delivered message was
\* unread, and messages of the old and of the new stream were forwarded.
C2_ForwardedAcrossReconnect ==
    /\ \E i, j \in 1 .. Len(sink) : sink[i].ep < sink[j].ep
    /\ \E m \in delivered : Occurrences(sink, m) = 0 /\ m.ep < json_rpc_responses.ep


(***************************************************************************)
(* C3                                                                      *)
(***************************************************************************)
\* C3 (as stated): once the open of a reconnect has succeeded, the pump is on
\* its way back to reading: it has not stopped.
C3_ResumesAfterOpen == (rc.active /\ rc.sid # 0) => pumpPc # "panicked"

\* The counters of a reconnect: every open attempt but the successful one
\* failed, and every failure is followed by one delay before the next attempt.
RetryCounters ==
    /\ rc.opens = rc.fails + (IF rc.sid # 0 THEN 1 ELSE 0)
    /\ rc.sleeps = rc.fails - (IF pumpPc \in {"rc_end_block", "rc_sleep"} THEN 1 ELSE 0)
    /\ pumpPc \in {"rc_end_block", "rc_sleep", "rc_write", "rc_remove", "rc_add"}
          => rc.active /\ rc.sid = 0
    /\ (pumpPc \in {"next", "println", "check"} /\ rc.opens > 0) =>
          /\ rc.sid # 0
          /\ rc.opens = rc.fails + 1
          /\ rc.sleeps = rc.fails
          /\ json_rpc_responses.ep = calls.ok

\* C3 (amended): a failed open never ends a reconnect: after k failed opens
\* and a successful one the loop has made exactly k+1 open attempts and k
\* delays, and then, provided both bootstrap resubmissions succeed, the pump
\* reads from the stream of the successful open; if a resubmission fails the
\* pump task panics instead.  A failed open is followed by the delay and the
\* next turn of the loop, never by anything else; under fairness, a successful
\* open leads to the pump reading again or to that panic.
C3_RetryUntilOpenThenResumeOrPanic ==
    /\ []RetryCounters
    /\ [][/\ pumpPc = "rc_end_block" => pumpPc' \in {"rc_end_block", "rc_sleep"}
          /\ pumpPc = "rc_sleep" => pumpPc' \in {"rc_sleep", "rc_write"}
          /\ pumpPc = "rc_write" => pumpPc' \in {"rc_write", "rc_remove"}]_vars
    /\ (rc.active /\ rc.sid # 0) ~> ((pumpPc = "next" /\ ~rc.active) \/ pumpPc = "panicked")

\* C3 witness: the pump reads again after a reconnect in which open failed
\* before it succeeded.
C3_ResumedAfterFailedOpen ==
    pumpPc = "next" /\ ~rc.active /\ rc.fails >= 1 /\ rc.sid # 0 /\ rc.sleeps = rc.fails

(***************************************************************************)
(* C4                                                                      *)
(***************************************************************************)
\* C4 (as stated): every request is submitted with the session id returned by
\* the latest successful open, which is the id of an open session.
C4_UsesInstalledId ==
    \A i \in 1 .. Len(reqLog) : reqLog[i].sid = reqLog[i].cur /\ reqLog[i].open

(***************************************************************************)
(* C5                                                                      *)
(***************************************************************************)
\* C5 (as stated): from the close of the old session until the new session is
\* installed the reconnect loop holds the guard, and no health poll is
\* submitted in between.
C5_GuardHeldAcrossGap ==
    /\ InGap => "pump" \in guard
    /\ \A i \in 1 .. Len(reqLog) : IsPoll(reqLog[i]) => ~reqLog[i].gap

\* C5 (amended): within one turn of the reconnect loop the guard is held from
\* the close until the turn ends (with the new session installed and
\* resubscribed, or with the failed open); after a failed open the guard is
\* released for the delay, so a health poll is submitted between the close of
\* the old session and the installation of the new one only while the
\* reconnect loop waits between two open attempts.
C5_GuardHeldWithinAttempt ==
    /\ (InGap /\ pumpPc \notin {"rc_sleep", "rc_write"}) => guard = {"pump"}
    /\ (rc.active /\ rc.sid # 0 /\ pumpPc # "panicked") => guard = {"pump"}
    /\ (InGap /\ "main" \in guard) => (pumpPc \in {"rc_sleep", "rc_write"} /\ rc.fails >= 1)
    /\ \A i \in 1 .. Len(reqLog) : reqLog[i].gap => IsPoll(reqLog[i])

\* C5 witness: a health poll is being submitted while the old session is
\* closed, no new one is installed and the reconnect loop waits to retry.
C5_PollDuringRetryDelay == InGap /\ mainPc = "poll_request" /\ pumpPc = "rc_sleep"

(***************************************************************************)
(* C6                                                                      *)
(***************************************************************************)
\* C6 (as stated): a health-poll submission attempt never crashes the poll
\* loop, whatever the outcome of the reconnect's steps.
C6_PollNeverCrashes == mainPc # "poll_panicked"


(***************************************************************************)
(* C7                                                                      *)
(***************************************************************************)
\* The texts that are a health response reporting isSyncing == false,
\* shouldHavePeers == false and peers == 0.
StalledHealthTexts ==
    { x \in AllTexts :
        /\ x.json
        /\ x.jsonrpc = Str
        /\ x.id.t = "num" /\ x.id.v >= 0
        /\ x.result = Obj
        /\ x.isSyncing = Bool(FALSE)
        /\ x.shouldHavePeers = Bool(FALSE)
        /\ x.peers = Num(0) }

\* C7: check_if_need_reconnect answers "needs reconnect" exactly for the texts
\* that decode as a health response with isSyncing == false, shouldHavePeers
\* == false and peers == 0; for every other text (peers > 0, isSyncing or
\* shouldHavePeers true, or not a health response) it answers "no reconnect";
\* it always answers.
C7_EvaluatorVerdict ==
    evalOut # "none" =>
        /\ evalOut \in {"reconnect", "no_reconnect"}
        /\ evalOut = "reconnect" <=> evalIn \in StalledHealthTexts
        /\ (evalIn.peers.t = "num" /\ evalIn.peers.v > 0) => evalOut = "no_reconnect"
        /\ evalIn.isSyncing = Bool(TRUE) => evalOut = "no_reconnect"
        /\ evalIn.shouldHavePeers = Bool(TRUE) => evalOut = "no_reconnect"
        /\ evalIn \in {Garbage, NotificationText} => evalOut = "no_reconnect"

\* C7 witness: the evaluator answered "needs reconnect" on a health response.
C7_NeedsReconnectAnswered == evalOut = "reconnect" /\ evalIn = HealthText(FALSE, 0, FALSE)

(***************************************************************************)
(* C8                                                                      *)
(***************************************************************************)
\* C8 (as stated): once the task that opened a session has left the
\* bootstrap step (it reads, polls or has stopped), both bootstrap requests
\* of every successful open have been submitted.
C8_BothSubmittedAfterEveryOpen ==
    (/\ mainPc \notin {"init_write_add", "init_add", "init_write_sub1", "init_sub1",
                       "init_write_sub2", "init_sub2"}
     /\ pumpPc \notin {"rc_sub1", "rc_sub2"})
        => \A ep \in 1 .. calls.ok : Len(BootOf(ep)) = 2

\* The bootstrap requests submitted since a successful open are, in order, a
\* beginning of <<chain_subscribeNewHeads, grandpa_subscribeJustifications>>.
BootInOrder(ep) ==
    /\ Len(BootOf(ep)) <= 2
    /\ \A i \in 1 .. Len(BootOf(ep)) :
        /\ BootOf(ep)[i].method = BootMethods[i]
        /\ i > 1 => BootOf(ep)[i - 1].ok

\* C8 (amended): after every successful open, the initial one and each one
\* inside a reconnect, chain_subscribeNewHeads is submitted once and then,
\* unless that submission fails, grandpa_subscribeJustifications once; a
\* failed submission stops the task, so the pump reads a message of a stream
\* only after both requests of its open were submitted and accepted; no
\* bootstrap request is submitted before the first successful open or after
\* a failed open attempt.
C8_BootstrapOncePerOpenInOrder ==
    /\ BootOf(0) = <<>>
    /\ \A ep \in 1 .. calls.ok : BootInOrder(ep)
    /\ \A ep \in 1 .. (calls.ok - 1) : Len(BootOf(ep)) = 2
    /\ \A i \in 1 .. Len(BootEntries) : ~BootEntries[i].gap
    /\ pumpPc \in {"next", "println", "check"} =>
          \A ep \in 1 .. json_rpc_responses.ep :
              Len(BootOf(ep)) = 2 /\ BootOf(ep)[2].ok
    /\ \A i \in 1 .. Len(sink) : Len(BootOf(sink[i].ep)) = 2

\* C8 witness: after an open that failed and one that succeeded in a
\* reconnect, both bootstrap requests of the new session were submitted and
\* the pump has read a message of the new stream.
C8_ReadsNewStreamAfterBootstrap ==
    /\ rc.fails >= 1
    /\ pumpPc = "println"
    /\ response.ep = 2
    /\ Len(BootOf(2)) = 2


(***************************************************************************)
(* C9                                                                      *)
(***************************************************************************)
\* C9: the sink receives the messages of one stream in the order of the
\* stream and never goes back to an older session; a message is at the end of
\* the sink when it is evaluated; and after a message evaluated as "needs
\* reconnect" no later message of the same stream is forwarded, neither during
\* the reconnect nor after a message of the new session.
C9_SinkOrderPerSession ==
    /\ \A i, j \in 1 .. Len(sink) :
        i < j =>
            \/ sink[i].ep < sink[j].ep
            \/ /\ sink[i].ep = sink[j].ep
               /\ sink[i].n < sink[j].n
               /\ ~check_if_need_reconnect(sink[i].text)
    /\ pumpPc = "check" => (Len(sink) > 0 /\ sink[Len(sink)] = response)
    /\ rc.active =>
          /\ Len(sink) > 0
          /\ check_if_need_reconnect(sink[Len(sink)].text)
          /\ sink[Len(sink)] = response

\* C9 witness: two messages of the first session were forwarded in order, the
\* second one started a reconnect, and a message of the new session followed.
C9_TwoSessionsAtSink ==
    /\ Len(sink) = 3
    /\ sink[1].ep = 1 /\ sink[2].ep = 1 /\ sink[3].ep = 2
    /\ check_if_need_reconnect(sink[2].text)

(***************************************************************************)
(* C10                                                                     *)
(***************************************************************************)
\* C10: when the stream has ended with nothing left to read and no "needs
\* reconnect" verdict is pending, the only step of the pump is to panic, and
\* from then on the pump stays stopped: it performs no remove_chain, no
\* add_chain and no bootstrap submission, installs no stream and takes no
\* guard.
C10_EndOfStreamIsFatal ==
    [][/\ (pumpPc = "next" /\ json_rpc_responses.q = <<>> /\ json_rpc_responses.ended)
            => pumpPc' \in {"next", "panicked"}
       /\ ((pumpPc = "next" /\ pumpPc' = "panicked") \/ EosPanic)
            => /\ EosPanic'
               /\ calls' = calls
               /\ chains' = chains
               /\ PumpCalls' = PumpCalls
               /\ json_rpc_responses'.ep = json_rpc_responses.ep
               /\ "pump" \notin guard'
               /\ ~poisoned']_vars

\* C10 witness: the pump has panicked on the end of the stream of a session
\* that a reconnect had installed.
C10_PumpStoppedOnEndOfStream == EosPanic /\ json_rpc_responses.ended /\ calls.ok = 2

(***************************************************************************)
(* C11                                                                     *)
(***************************************************************************)
\* The pump panicked inside a reconnect (on a failed resubscription).
ResubPanic == pumpPc = "panicked" /\ rc.active

LastReq == reqLog[Len(reqLog)]

\* C11: a bootstrap submission that fails after the successful open of a
\* reconnect panics the pump task, and from then on the task makes no
\* add_chain call and no further submission; a failed add_chain, in
\* contrast, leaves the block and leads through the delay and the guard back
\* to the next add_chain call.
C11_ResubscriptionFailureIsFatal ==
    [][/\ (pumpPc \in {"rc_sub1", "rc_sub2"} /\ reqLog' # reqLog /\ ~LastReq'.ok)
            => pumpPc' = "panicked"
       /\ ResubPanic =>
            /\ ResubPanic'
            /\ calls' = calls
            /\ PumpCalls' = PumpCalls
            /\ json_rpc_responses'.ep = json_rpc_responses.ep
       /\ (pumpPc = "rc_add" /\ rc'.fails > rc.fails) => pumpPc' = "rc_end_block"
       /\ pumpPc = "rc_end_block" => pumpPc' \in {"rc_end_block", "rc_sleep"}
       /\ pumpPc = "rc_sleep" => pumpPc' \in {"rc_sleep", "rc_write"}
       /\ pumpPc = "rc_write" => pumpPc' \in {"rc_write", "rc_remove"}
       /\ pumpPc = "rc_remove" => pumpPc' \in {"rc_remove", "rc_add"}]_vars

\* C11 witness: in one reconnect an open failed and was retried, the next
\* open succeeded, and the pump panicked on a failed resubscription.
C11_PanickedOnResubscription ==
    ResubPanic /\ rc.fails >= 1 /\ rc.sid # 0 /\ Len(reqLog) > 0 /\ ~LastReq.ok

(***************************************************************************)
(* C12                                                                     *)
(***************************************************************************)
\* C12: a health poll whose submission returns Err leaves the poll loop at
\* the start of its next turn with the guard dropped; it changes nothing of
\* the pump or of a reconnect; the failed request is not submitted again (no
\* two polls share an id) and the poll after a failed one carries the next
\* id; the poll loop stops only on a poisoned lock.
C12_PollErrorNonFatal ==
    /\ [][(mainPc = "poll_request" /\ reqLog' # reqLog /\ ~LastReq'.ok) =>
            /\ mainPc' = "poll_build"
            /\ "main" \notin guard'
            /\ poisoned' = poisoned
            /\ pumpPc' = pumpPc
            /\ rc' = rc
            /\ calls' = calls
            /\ id' = id]_vars
    /\ [](\A i, j \in 1 .. Len(PollEntries) :
            /\ i < j => PollEntries[i].id # PollEntries[j].id
            /\ (j = i + 1 /\ ~PollEntries[i].ok) => PollEntries[j].id = PollEntries[i].id + 1)
    /\ [](mainPc = "poll_panicked" => poisoned)

\* C12 witness: a poll failed and the next poll was submitted with the next id.
C12_PollAfterFailedPoll ==
    /\ Len(PollEntries) >= 2
    /\ ~PollEntries[1].ok
    /\ PollEntries[2].id = PollEntries[1].id + 1
    /\ mainPc = "poll_build"

(***************************************************************************)
(* C13                                                                     *)
(***************************************************************************)
\* C13: the first health poll carries id 3 and each later one the id of the
\* poll before it plus one, whatever the outcome of that poll and whether or
\* not a reconnect happened in between; the counter only ever moves up by one.
C13_PollIdsFromThree ==
    /\ [](Len(PollEntries) > 0 => PollEntries[1].id = 3)
    /\ [](\A j \in 2 .. Len(PollEntries) : PollEntries[j].id = PollEntries[j - 1].id + 1)
    /\ [](mainPc \in {"poll_write", "poll_request"} => req_id = id - 1)
    /\ [][id > 0 => id' \in {id, id + 1}]_vars

\* C13 witness: a failed poll, then a reconnect, then the next poll.
C13_PollsAcrossReconnect ==
    /\ Len(PollEntries) = 2
    /\ ~PollEntries[1].ok
    /\ PollEntries[1].ep < PollEntries[2].ep
    /\ PollEntries[2].id = 4

(***************************************************************************)
(* C14                                                                     *)
(***************************************************************************)
\* C14: while the reconnect loop sleeps between two open attempts it holds no
\* guard, and a health poll waiting for the guard can take it.
C14_SleepsWithoutGuard ==
    pumpPc = "rc_sleep" =>
        /\ "pump" \notin guard
        /\ rc.fails >= 1
        /\ (mainPc = "poll_write" /\ guard = {}) => ENABLED PollWrite
        /\ guard \subseteq {"main"}

\* C14 witness: during the delay after the second failed open a health poll
\* holds the guard.
C14_PollHoldsGuardDuringSecondDelay ==
    pumpPc = "rc_sleep" /\ rc.fails = 2 /\ guard = {"main"}

(***************************************************************************)
(* C15                                                                     *)
(***************************************************************************)
\* C15 (as stated): one reconnect closes the old session once, before its
\* first open attempt, however many open attempts it makes.
C15_OneClosePerReconnect ==
    /\ rc.closes <= 1
    /\ rc.opens > 0 => rc.closes = 1

(***************************************************************************)
(* C16                                                                     *)
(***************************************************************************)
\* C16: the pump enters the reconnect loop only from the check of a message it
\* has just forwarded and evaluated as "needs reconnect", and only when no
\* reconnect is in progress; remove_chain and add_chain are called (after the
\* initial open) only inside that one reconnect, under its guard; a message
\* arriving while a reconnect is in progress changes nothing of it, and a
\* reconnect in progress is never restarted.
C16_SingleReconnectFromVerdict ==
    [][/\ (pumpPc' = "rc_write" /\ pumpPc # "rc_write") =>
            \/ pumpPc = "rc_sleep" /\ rc.active /\ rc'.active
            \/ /\ pumpPc = "check"
               /\ ~rc.active
               /\ check_if_need_reconnect(response.text)
               /\ Len(sink) > 0 /\ sink[Len(sink)] = response
               /\ rc' = [NoReconnect EXCEPT !.active = TRUE]
       /\ (rc.active /\ rc'.active) => (rc'.closes >= rc.closes /\ rc'.opens >= rc.opens)
       /\ (calls'.closes # calls.closes \/ (calls'.opens # calls.opens /\ mainPc # "init_add"))
            => (rc.active /\ pumpPc \in {"rc_remove", "rc_add"} /\ guard = {"pump"})
       /\ (rc.active /\ delivered' # delivered)
            => (pumpPc' = pumpPc /\ rc' = rc /\ calls' = calls)]_vars

\* C16 witness: a second "needs reconnect" response of the old session was
\* delivered and never forwarded, and the one reconnect has completed with a
\* single open.
C16_UnhealthyAbsorbed ==
    /\ ~rc.active /\ rc.sid # 0 /\ pumpPc = "next"
    /\ calls.opens = 2
    /\ \E m \in delivered :
        /\ m.ep = 1
        /\ check_if_need_reconnect(m.text)
        /\ Occurrences(sink, m) = 0

(***************************************************************************)
(* C17                                                                     *)
(***************************************************************************)
\* C17: at most one task holds a guard; a task that is about to call
\* add_chain, remove_chain or json_rpc_request holds it; and every step that
\* submits a request, opens or closes a session or installs a stream is taken
\* by a task holding the guard.
C17_AllCallsUnderOneGuard ==
    /\ [](Cardinality(guard) <= 1)
    /\ [](mainPc \in {"init_add", "init_sub1", "init_sub2", "poll_request"}
            => "main" \in guard)
    /\ [](pumpPc \in {"rc_remove", "rc_add", "rc_sub1", "rc_sub2", "rc_break", "rc_end_block"}
            => "pump" \in guard)
    /\ [][/\ reqLog' # reqLog => LastReq'.who \in guard
          /\ (\/ calls' # calls
              \/ chains' # chains
              \/ json_rpc_responses'.ep # json_rpc_responses.ep)
                => (IF pumpPc' # pumpPc THEN "pump" ELSE "main") \in guard]_vars

\* C17 witness: the reconnect loop waits for the guard while a health poll
\* holds it.
C17_GuardContended ==
    guard = {"main"} /\ mainPc = "poll_request" /\ pumpPc = "rc_write" /\ rc.fails = 0

(***************************************************************************)
(* C18                                                                     *)
(***************************************************************************)
\* The main task has ended by a panic.
MainStopped == mainPc \in {"aborted", "poll_panicked"}

\* The reconnect loop is past the bounds of the open counter, every further
\* add_chain failing.
OpensFailForever ==
    rc.active /\ calls.opens = MaxOpens /\ rc.sid = 0 /\ pumpPc # "panicked"

\* C18: on every fair run the poll loop submits poll after poll (up to the
\* bound MaxPolls of the model) unless the main task has panicked; this holds
\* from every state in which the reconnect loop turns without end because
\* every add_chain fails, whatever the number of polls submitted so far.
C18_PollLoopKeepsSubmitting ==
    /\ <>(Len(PollEntries) = MaxPolls \/ MainStopped)
    /\ \A k \in 0 .. (MaxPolls - 1) :
        (OpensFailForever /\ rc.sleeps = MaxOpens /\ Len(PollEntries) = k)
            ~> (Len(PollEntries) > k \/ MainStopped)

\* C18 witness: all polls were submitted and the last poll was submitted
\* while the reconnect loop was already turning past the bound, the old
\* session closed and no new one open.
C18_PolledWhileOpensFailForever ==
    /\ OpensFailForever /\ rc.sleeps = MaxOpens
    /\ pumpPc = "rc_sleep" /\ mainPc = "poll_build"
    /\ Len(PollEntries) = MaxPolls
    /\ PollEntries[MaxPolls].gap /\ ~PollEntries[MaxPolls].open
    /\ reqLog[Len(reqLog)] = PollEntries[MaxPolls]

(***************************************************************************)
(* C19                                                                     *)
(***************************************************************************)
\* The requests submitted after the ep-th successful open and before the next.
RequestsOf(ep) == LET In(e) == e.ep = ep IN SelectSeq(reqLog, In)

\* C19: from the successful add_chain of a reconnect to the end of its block
\* the pump holds the guard and no poll is at its request; the stream in use
\* is always the one of the last successful open; and of the requests
\* submitted after any successful open the first is the newHeads subscription
\* with id 1, the second the justifications subscription with id 2, and only
\* the later ones are health polls.
C19_BootstrapInOneCriticalSection ==
    /\ [](pumpPc \in {"rc_sub1", "rc_sub2", "rc_break"}
            => (guard = {"pump"} /\ mainPc # "poll_request"))
    /\ [](json_rpc_responses.ep = calls.ok)
    /\ [](\A ep \in 1 .. MaxOpens :
            LET s == RequestsOf(ep)
            IN  /\ Len(s) >= 1 => (s[1].method = BootMethods[1] /\ s[1].id = 1)
                /\ Len(s) >= 2 => (s[2].method = BootMethods[2] /\ s[2].id = 2 /\ s[1].ok)
                /\ \A j \in 3 .. Len(s) : IsPoll(s[j]))
    /\ [][(pumpPc \in {"rc_sub1", "rc_sub2"} /\ reqLog' # reqLog)
            => LastReq'.who = "pump"]_vars

\* C19 witness: a poll was submitted to the first session, then the two
\* bootstrap requests of the second, then a poll to the second.
C19_PollBootstrapPoll ==
    /\ Len(reqLog) = 6
    /\ IsPoll(reqLog[3]) /\ reqLog[3].ep = 1
    /\ IsBoot(reqLog[4]) /\ reqLog[4].ep = 2 /\ reqLog[4].who = "pump"
    /\ IsBoot(reqLog[5]) /\ reqLog[5].ep = 2
    /\ IsPoll(reqLog[6]) /\ reqLog[6].ep = 2

(***************************************************************************)
(* C20                                                                     *)
(***************************************************************************)
\* C20: a failed initial add_chain or initial subscription ends the main task
\* at once, after a single add_chain, with the pump never spawned, no poll
\* submitted and nothing forwarded; and the pump is spawned, a poll built or a
\* message forwarded only after the initial add_chain and both initial
\* subscriptions have succeeded.
C20_InitialFailureAborts ==
    /\ [](mainPc = "aborted" =>
            /\ pumpPc = "not_spawned"
            /\ calls.opens = 1 /\ calls.closes = 0
            /\ PollEntries = <<>> /\ sink = <<>> /\ id = 0
            /\ Len(reqLog) <= 2
            /\ calls.ok = 0 \/ (Len(reqLog) >= 1 /\ ~LastReq.ok))
    /\ []((\/ pumpPc # "not_spawned"
           \/ mainPc \in {"poll_build", "poll_write", "poll_request", "poll_panicked"}
           \/ PollEntries # <<>>
           \/ sink # <<>>)
            => /\ calls.ok >= 1
               /\ Len(reqLog) >= 2
               /\ \A j \in 1 .. 2 : /\ reqLog[j].method = BootMethods[j]
                                    /\ reqLog[j].ok /\ reqLog[j].ep = 1
                                    /\ reqLog[j].who = "main")
    /\ [][/\ (mainPc = "init_add" /\ calls'.opens > calls.opens /\ calls'.ok = calls.ok)
                => mainPc' = "aborted"
          /\ (mainPc \in {"init_sub1", "init_sub2"} /\ reqLog' # reqLog /\ ~LastReq'.ok)
                => mainPc' = "aborted"
          /\ mainPc = "aborted"
                => (mainPc' = "aborted" /\ calls' = calls /\ reqLog' = reqLog
                    /\ pumpPc' = pumpPc)]_vars

\* C20 witness: the second initial subscription failed and the process
\* aborted.
C20_AbortedOnSecondSubscription ==
    mainPc = "aborted" /\ Len(reqLog) = 2 /\ reqLog[1].ok /\ ~reqLog[2].ok

====
